---- MODULE Spec2Model ----
(***************************************************************************)
(* Model of publications_api/get_citations.py: the scholar-link reader,    *)
(* the listing extractor, the _index.md cleaner/appender and main's loop.  *)
(*                                                                         *)
(* Text.  A Python str is a sequence of lines; a line is a record          *)
(* [t |-> text, nl |-> BOOLEAN] where nl says whether the line carries its *)
(* "\n".  Only the last line of a str can lack it.  The text of a line is  *)
(* a tuple of fragments, so that an f-string is the tuple of its literal   *)
(* and interpolated parts.  The empty str is <<>>.                         *)
(***************************************************************************)
EXTENDS Integers, Sequences, FiniteSets, TLC

VARIABLES
    files,          \* author -> content of {author}/_index.md (lines)
    files0,         \* history: author -> content before the run
    social,         \* author -> front matter of {author}/_index.md
    idx,            \* position of main's for loop in all_author_folders
    pc,             \* statement main is about to execute
    scholar_link,   \* main's local scholar_link
    publications,   \* main's local publications
    settled,        \* history: per finished iteration, the content it left
    failed,         \* history: the authors whose iteration raised
    hfile,          \* unit harness: the _index.md the updater calls act on
    hlog,           \* unit harness: the updater calls made, in order
    pin,            \* unit harness: arguments of one reader/extractor call
    pout            \* unit harness: what that call returned

vars == <<files, files0, social, idx, pc, scholar_link, publications,
          settled, failed, hfile, hlog, pin, pout>>

mainVars == <<files, files0, social, idx, pc, scholar_link, publications,
              settled, failed>>
updVars == <<hfile, hlog>>
fnVars == <<pin, pout>>

(***************************************************************************)
(* Bounds                                                                  *)
(***************************************************************************)
NAuthors == 3       \* author folders in a run of main
MaxDocLen == 3      \* lines of an initial _index.md in the updater harness
MaxCalls == 2       \* updater calls in a row in the harness
MaxPubs == 2        \* records handed to one append
MaxRows == 3        \* <tr> elements of a listing page
MaxLimit == 2       \* largest limit passed to get_publications in the harness
MaxSocial == 2      \* entries of a social list

Min(a, b) == IF a < b THEN a ELSE b
Max(a, b) == IF a > b THEN a ELSE b

BoundedSeq(S, n) == UNION {[1..k -> S] : k \in 0..n}

(***************************************************************************)
(* Python str / list primitives                                            *)
(***************************************************************************)
\* "text\n"
Line(t) == [t |-> t, nl |-> TRUE]

\* "\n"
NL == <<Line(<<>>)>>

\* a + b on strs: an unterminated last line of a runs into b's first line
StrConcat(a, b) ==
    IF a = <<>> THEN b
    ELSE IF b = <<>> THEN a
    ELSE IF a[Len(a)].nl THEN a \o b
    ELSE SubSeq(a, 1, Len(a) - 1)
         \o <<[t |-> a[Len(a)].t \o b[1].t, nl |-> b[1].nl]>>
         \o Tail(b)

\* s.endswith("\n")
endswith_nl(s) == s # <<>> /\ s[Len(s)].nl

\* fp.readlines(): the list of the file's lines, each with its terminator
readlines(s) == s

\* fp.writelines(lst) / "".join(lst)
RECURSIVE writelines(_)
writelines(lst) ==
    IF lst = <<>> THEN <<>>
    ELSE StrConcat(<<Head(lst)>>, writelines(Tail(lst)))

\* x in lst
contains(lst, x) == \E i \in 1..Len(lst) : lst[i] = x

\* lst.index(x), 0-based, for x in lst
index(lst, x) ==
    (CHOOSE i \in 1..Len(lst) :
        lst[i] = x /\ \A j \in 1..(i - 1) : lst[j] # x) - 1

\* lst[:stop] with Python's treatment of a negative stop
slice_to(lst, stop) ==
    LET n == Len(lst)
        k == IF stop < 0 THEN Max(n + stop, 0) ELSE Min(stop, n)
    IN SubSeq(lst, 1, k)

\* lst[start:] for start >= 0
slice_from(lst, start) == SubSeq(lst, Min(start, Len(lst)) + 1, Len(lst))

(***************************************************************************)
(* Literals of the source                                                  *)
(***************************************************************************)
START_MARK == <<"<!-- PUBLICATIONS START -->">>
END_MARK == <<"<!-- PUBLICATIONS END -->">>
GENERATED_NOTE ==
    <<"<!-- This content is automatically generated by get_citations.py. Don't touch -->">>
HEADING == <<"## Publications">>
default_link == "https://scholar.google.co.uk/citations?user=sIwtMXoAAAAJ"
None == "None"

(***************************************************************************)
(* publication_to_md, lines 90-100                                         *)
(***************************************************************************)
publication_to_md_swapped(publication) ==
    StrConcat(<<Line(<<"- **", publication.title, "** (", publication.authors, ")">>)>>,
              <<Line(<<"  - ", publication.year>>)>>)

publication_to_md(publication) ==
    LET title == publication.title
        year == publication.year
        authors == publication.authors
        md == <<Line(<<"- **", title, "** (", year, ")">>)>>
    IN StrConcat(md, <<Line(<<"  - ", authors>>)>>)

(***************************************************************************)
(* clean_index_of_old_pubs, lines 102-121.  The result is the content of   *)
(* the file afterwards, whether the file was opened for writing, and       *)
(* whether an exception left the function: the ValueError of either index  *)
(* call is caught by the except clause.                                    *)
(***************************************************************************)
clean_index_of_old_pubs_find(content) ==
    LET md == readlines(content)
        publication_begins ==
            IF contains(md, Line(START_MARK)) THEN index(md, Line(START_MARK)) ELSE -1
        publication_ends ==
            IF contains(md, Line(END_MARK)) THEN index(md, Line(END_MARK)) ELSE -1
        clean_md == slice_to(md, publication_begins - 1)
                    \o slice_from(md, publication_ends + 1)
    IN [content |-> writelines(clean_md), wrote |-> TRUE, raised |-> FALSE]

clean_index_of_old_pubs(content) ==
    LET md == readlines(content)
    IN IF ~contains(md, Line(START_MARK)) \/ ~contains(md, Line(END_MARK))
       THEN [content |-> content, wrote |-> FALSE, raised |-> FALSE]
       ELSE LET publication_begins == index(md, Line(START_MARK))
                publication_ends == index(md, Line(END_MARK))
                clean_md == slice_to(md, publication_begins - 1)
                            \o slice_from(md, publication_ends + 1)
            IN [content |-> writelines(clean_md), wrote |-> TRUE, raised |-> FALSE]

(***************************************************************************)
(* main, lines 147-162: the text written back given the text read and the  *)
(* publications                                                            *)
(***************************************************************************)
RECURSIVE annex_pubs(_, _)
annex_pubs(annex, pubs) ==
    IF pubs = <<>> THEN annex
    ELSE annex_pubs(StrConcat(annex, publication_to_md(Head(pubs))), Tail(pubs))

new_index(old_index, pubs) ==
    LET annex0 == StrConcat(<<Line(START_MARK)>>, <<Line(GENERATED_NOTE)>>)
        annex1 == StrConcat(annex0, StrConcat(NL, StrConcat(NL, <<Line(HEADING)>>)))
        annex2 == annex_pubs(annex1, pubs)
        annex == StrConcat(annex2, <<Line(END_MARK)>>)
        old == IF ~endswith_nl(old_index) THEN StrConcat(old_index, NL) ELSE old_index
    IN StrConcat(StrConcat(old, annex), NL)

(***************************************************************************)
(* get_scholar_link, lines 23-43.  The front matter parse_markdown returns *)
(* is [valid, social]: valid is FALSE when the file cannot be parsed or    *)
(* has no usable "social" list (the lookup raises), social is the list of  *)
(* [icon, link] entries.  A call returns [raised, value].                  *)
(***************************************************************************)
\* {l["icon"]: l["link"] for l in social_links}, built entry by entry
RECURSIVE dict_comprehension(_, _)
dict_comprehension(entries, d) ==
    IF entries = <<>> THEN d
    ELSE dict_comprehension(Tail(entries),
                            (Head(entries).icon :> Head(entries).link) @@ d)

EmptyDict == [k \in {} |-> None]

get_scholar_link_first_wins(author_metadata) ==
    IF ~author_metadata.valid THEN [raised |-> TRUE, value |-> None]
    ELSE LET social_links == author_metadata.social
             caps == SelectSeq(social_links, LAMBDA l : l.icon = "graduation-cap")
         IN IF caps = <<>> THEN [raised |-> FALSE, value |-> None]
            ELSE IF caps[1].link = default_link THEN [raised |-> FALSE, value |-> None]
            ELSE [raised |-> FALSE, value |-> caps[1].link]

get_scholar_link(author_metadata) ==
    IF ~author_metadata.valid THEN [raised |-> TRUE, value |-> None]
    ELSE LET social_links == dict_comprehension(author_metadata.social, EmptyDict)
         IN IF "graduation-cap" \notin DOMAIN social_links
            THEN [raised |-> FALSE, value |-> None]
            ELSE IF social_links["graduation-cap"] = default_link
            THEN [raised |-> FALSE, value |-> None]
            ELSE [raised |-> FALSE, value |-> social_links["graduation-cap"]]

(***************************************************************************)
(* parse_row, lines 58-71.  A <tr> is [class, has_title_td, a, div, year]: *)
(* whether it has a td of class gsc_a_t, the text of that td's <a> and     *)
(* <div>, and the text of its td of class gsc_a_y, each None when the      *)
(* element is missing.  Reading an attribute of a missing element raises.  *)
(***************************************************************************)
parse_row(tr) ==
    IF ~tr.has_title_td \/ tr.a = None \/ tr.div = None \/ tr.year = None
    THEN [raised |-> TRUE, value |-> [title |-> None, authors |-> None, year |-> None]]
    ELSE [raised |-> FALSE,
          value |-> [title |-> tr.a, authors |-> tr.div, year |-> tr.year]]

(***************************************************************************)
(* get_publications, lines 73-88.  The response of requests.get is         *)
(* [ok, page]: ok is FALSE when the request raises, page is the sequence   *)
(* of <tr> elements of the document.  limit is <<>> for None, <<k>> for k. *)
(***************************************************************************)
\* soup.find_all("tr", {"class": "gsc_a_tr"}, limit=limit)
find_all(page, limit) ==
    LET rows == SelectSeq(page, LAMBDA tr : tr.class = "gsc_a_tr")
    IN IF limit = <<>> THEN rows
       ELSE SubSeq(rows, 1, Min(limit[1], Len(rows)))

get_publications_unlimited(author_metadata, response, limit) ==
    LET link == get_scholar_link(author_metadata)
    IN IF link.raised \/ link.value = None \/ ~response.ok
       THEN [raised |-> TRUE, value |-> <<>>]
       ELSE LET all_rows == find_all(response.page, <<>>)
            IN IF \E i \in 1..Len(all_rows) : parse_row(all_rows[i]).raised
               THEN [raised |-> TRUE, value |-> <<>>]
               ELSE [raised |-> FALSE,
                     value |-> [i \in 1..Len(all_rows) |-> parse_row(all_rows[i]).value]]

get_publications(author_metadata, response, limit) ==
    LET link == get_scholar_link(author_metadata)
    IN IF link.raised \/ link.value = None \/ ~response.ok
       THEN [raised |-> TRUE, value |-> <<>>]
       ELSE LET all_rows == find_all(response.page, limit)
            IN IF \E i \in 1..Len(all_rows) : parse_row(all_rows[i]).raised
               THEN [raised |-> TRUE, value |-> <<>>]
               ELSE [raised |-> FALSE,
                     value |-> [i \in 1..Len(all_rows) |-> parse_row(all_rows[i]).value]]

(***************************************************************************)
(* Input sets                                                              *)
(***************************************************************************)
Authors == 1..NAuthors

LinkA == "https://scholar.google.com/citations?user=AAAA"
LinkB == "https://scholar.google.com/citations?user=BBBB"
Entry(icon, link) == [icon |-> icon, link |-> link]
Entries == {Entry(i, l) : i \in {"graduation-cap", "envelope"},
                          l \in {default_link, LinkA, LinkB}}
Meta(entries) == [valid |-> TRUE, social |-> entries]
BadMeta == [valid |-> FALSE, social |-> <<>>]

PubA == [title |-> "A", authors |-> "X, Y", year |-> "2020"]
PubB == [title |-> "B", authors |-> "Z", year |-> "2019"]
Pubs == {PubA, PubB}

Row(p) == [class |-> "gsc_a_tr", has_title_td |-> TRUE,
           a |-> p.title, div |-> p.authors, year |-> p.year]
RowA == Row(PubA)
RowB == Row(PubB)
Rows == {RowA, RowB,
         [RowA EXCEPT !.class = ""],
         [RowA EXCEPT !.has_title_td = FALSE],
         [RowB EXCEPT !.a = None],
         [RowB EXCEPT !.div = None],
         [RowA EXCEPT !.year = None]}
Page(rows) == [ok |-> TRUE, page |-> rows]
NetworkError == [ok |-> FALSE, page |-> <<>>]

LineTexts == {START_MARK, END_MARK, <<>>, <<"x">>}
Unterminated(d) == [d EXCEPT ![Len(d)].nl = FALSE]
\* every document of at most MaxDocLen lines, with or without its last "\n"
SmallDocs ==
    LET whole == BoundedSeq({Line(t) : t \in LineTexts}, MaxDocLen)
    IN whole \cup {Unterminated(d) : d \in {w \in whole : w # <<>> /\ w[Len(w)].t # <<>>}}
PubLists == BoundedSeq(Pubs, MaxPubs)

(***************************************************************************)
(* main, lines 123-162, one author folder after the other.  An exception   *)
(* raised while an author is processed is caught nowhere: it leaves main.  *)
(***************************************************************************)
main_limit == 5

MainMetas == {BadMeta,
              Meta(<<Entry("envelope", LinkA)>>),
              Meta(<<Entry("graduation-cap", default_link)>>),
              Meta(<<Entry("graduation-cap", LinkA)>>)}
Body == <<Line(<<"x">>)>>
MainDocs == {Body, new_index(Body, <<PubB>>), new_index(Body \o NL, <<PubB>>)}
MainResponses == {NetworkError,
                  Page(<<>>),
                  Page(<<RowA>>),
                  Page(<<RowB, RowA>>),
                  Page(<<RowA, [RowA EXCEPT !.year = None]>>),
                  Page(<<RowA, RowB, RowA, RowB, RowA, RowB>>)}

\* the for loop moves to the next folder, or ends
next_author(content) ==
    /\ idx' = idx + 1
    /\ pc' = IF idx + 1 \in Authors THEN "get_scholar_link" ELSE "done"
    /\ settled' = Append(settled, content)

\* an exception raised while processing author a is caught instead of leaving main
raise_isolated(a) ==
    /\ failed' = failed \cup {a}
    /\ next_author(files[a])

\* an exception raised while processing author a propagates out of main
raise(a) ==
    /\ failed' = failed \cup {a}
    /\ pc' = "raised"
    /\ UNCHANGED <<idx, settled>>

\* line 136
GetScholarLink ==
    /\ pc = "get_scholar_link"
    /\ LET r == get_scholar_link(social[idx])
       IN \/ /\ r.raised
             /\ raise(idx)
             /\ UNCHANGED scholar_link
          \/ /\ ~r.raised
             /\ scholar_link' = r.value
             /\ pc' = "clean"
             /\ UNCHANGED <<idx, settled, failed>>
    /\ UNCHANGED <<files, files0, social, publications>>
    /\ UNCHANGED <<updVars, fnVars>>

\* line 139
CleanOldPubs ==
    /\ pc = "clean"
    /\ LET r == clean_index_of_old_pubs(files[idx])
       IN /\ files' = [files EXCEPT ![idx] = r.content]
          /\ IF r.raised
             THEN raise(idx)
             ELSE pc' = "check" /\ UNCHANGED <<idx, settled, failed>>
    /\ UNCHANGED <<files0, social, scholar_link, publications>>
    /\ UNCHANGED <<updVars, fnVars>>

\* lines 141-143
Continue ==
    /\ pc = "check"
    /\ scholar_link = None
    /\ next_author(files[idx])
    /\ UNCHANGED <<files, files0, social, scholar_link, publications, failed>>
    /\ UNCHANGED <<updVars, fnVars>>

\* line 146, with the response the network gives
GetPublications ==
    /\ pc = "check"
    /\ scholar_link # None
    /\ \E response \in MainResponses :
        LET r == get_publications(social[idx], response, <<main_limit>>)
        IN \/ /\ r.raised
              /\ raise(idx)
              /\ UNCHANGED publications
           \/ /\ ~r.raised
              /\ publications' = r.value
              /\ pc' = "write"
              /\ UNCHANGED <<idx, settled, failed>>
    /\ UNCHANGED <<files, files0, social, scholar_link>>
    /\ UNCHANGED <<updVars, fnVars>>

\* lines 147-162
WriteIndex ==
    /\ pc = "write"
    /\ files' = [files EXCEPT ![idx] = new_index(files[idx], publications)]
    /\ next_author(new_index(files[idx], publications))
    /\ UNCHANGED <<files0, social, scholar_link, publications, failed>>
    /\ UNCHANGED <<updVars, fnVars>>

(***************************************************************************)
(* Unit harness of the updater: clean_index_of_old_pubs and the append of  *)
(* main, called on one _index.md in any order, each call logged.           *)
(***************************************************************************)
CallClean ==
    /\ Len(hlog) < MaxCalls
    /\ LET r == clean_index_of_old_pubs(hfile)
       IN /\ hfile' = r.content
          /\ hlog' = Append(hlog, [op |-> "clean", before |-> hfile,
                                   after |-> r.content, wrote |-> r.wrote,
                                   raised |-> r.raised, pubs |-> <<>>])
    /\ UNCHANGED <<mainVars, fnVars>>

CallAppend ==
    /\ Len(hlog) < MaxCalls
    /\ \E pubs \in PubLists :
        LET new == new_index(hfile, pubs)
        IN /\ hfile' = new
           /\ hlog' = Append(hlog, [op |-> "append", before |-> hfile,
                                    after |-> new, wrote |-> TRUE,
                                    raised |-> FALSE, pubs |-> pubs])
    /\ UNCHANGED <<mainVars, fnVars>>

(***************************************************************************)
(* Unit harness of the reader and the extractor: one call on drawn inputs. *)
(***************************************************************************)
NoResult == [done |-> FALSE, raised |-> FALSE, link |-> None, pubs |-> <<>>]

CallGetScholarLink ==
    /\ pin.fn = "get_scholar_link"
    /\ ~pout.done
    /\ LET r == get_scholar_link(pin.meta)
       IN pout' = [done |-> TRUE, raised |-> r.raised, link |-> r.value, pubs |-> <<>>]
    /\ UNCHANGED <<pin, mainVars, updVars>>

CallGetPublications ==
    /\ pin.fn = "get_publications"
    /\ ~pout.done
    /\ LET r == get_publications(pin.meta, pin.response, pin.limit)
       IN pout' = [done |-> TRUE, raised |-> r.raised, link |-> None, pubs |-> r.value]
    /\ UNCHANGED <<pin, mainVars, updVars>>

(***************************************************************************)
(* Specifications                                                          *)
(***************************************************************************)
MainIdle ==
    /\ files = [a \in Authors |-> <<>>]
    /\ files0 = files
    /\ social = [a \in Authors |-> BadMeta]
    /\ idx = 1
    /\ pc = "done"
    /\ scholar_link = None
    /\ publications = <<>>
    /\ settled = <<>>
    /\ failed = {}

UpdIdle == hfile = <<>> /\ hlog = <<>>

FnIdle ==
    /\ pin = [fn |-> "none", meta |-> BadMeta, response |-> NetworkError, limit |-> <<>>]
    /\ pout = NoResult

\* a run of main over NAuthors folders
Init ==
    /\ files \in [Authors -> MainDocs]
    /\ files0 = files
    /\ social \in [Authors -> MainMetas]
    /\ idx = 1
    /\ pc = "get_scholar_link"
    /\ scholar_link = None
    /\ publications = <<>>
    /\ settled = <<>>
    /\ failed = {}
    /\ UpdIdle
    /\ FnIdle

Next ==
    \/ GetScholarLink
    \/ CleanOldPubs
    \/ Continue
    \/ GetPublications
    \/ WriteIndex

Spec == Init /\ [][Next]_vars

\* a generated block that was moved to the top of the file by hand
EditedDocs ==
    {Tail(new_index(<<>>, <<PubB>>)) \o rest :
        rest \in {<<>>, <<Line(<<"x">>)>>, <<Line(<<"x">>), Line(<<"y">>)>>}}
Docs == SmallDocs \cup EditedDocs

\* the updater's functions on every small document
InitUpdater ==
    /\ hfile \in Docs
    /\ hlog = <<>>
    /\ MainIdle
    /\ FnIdle

NextUpdater == CallClean \/ CallAppend

SpecUpdater == InitUpdater /\ [][NextUpdater]_vars

\* the reader and the extractor on every small input
Limits == {<<>>} \cup {<<k>> : k \in 1..MaxLimit}
InitParse ==
    /\ pin \in
         {[fn |-> "get_scholar_link", meta |-> m, response |-> NetworkError, limit |-> <<>>] :
             m \in {BadMeta} \cup {Meta(e) : e \in BoundedSeq(Entries, MaxSocial)}}
         \cup
         {[fn |-> "get_publications", meta |-> Meta(<<Entry("graduation-cap", LinkA)>>),
           response |-> r, limit |-> k] :
             r \in {NetworkError} \cup {Page(p) : p \in BoundedSeq(Rows, MaxRows)},
             k \in Limits}
    /\ pout = NoResult
    /\ MainIdle
    /\ UpdIdle

NextParse == CallGetScholarLink \/ CallGetPublications

SpecParse == InitParse /\ [][NextParse]_vars

(***************************************************************************)
(* Vocabulary of the properties                                            *)
(***************************************************************************)
\* the positions of the lines of d whose text is mark
LinesOf(d, mark) == {i \in 1..Len(d) : d[i].t = mark}

\* d holds no generated block: no start-marker line with an end-marker line after it
NoBlock(d) ==
    ~ \E i \in LinesOf(d, START_MARK) : \E j \in LinesOf(d, END_MARK) : i < j

\* d holds one generated block: one start-marker line, one end-marker line after it
OneBlock(d) ==
    /\ Cardinality(LinesOf(d, START_MARK)) = 1
    /\ Cardinality(LinesOf(d, END_MARK)) = 1
    /\ \A i \in 1..Len(d) : d[i].t \in {START_MARK, END_MARK} => d[i].nl
    /\ \E i \in LinesOf(d, START_MARK) : \E j \in LinesOf(d, END_MARK) : i < j

\* the lines '- **{title}** ({year})' and '  - {authors}' of the records, in order
EntryLines(pubs) ==
    [k \in 1..(2 * Len(pubs)) |->
        IF k % 2 = 1
        THEN Line(<<"- **", pubs[(k + 1) \div 2].title, "** (",
                    pubs[(k + 1) \div 2].year, ")">>)
        ELSE Line(<<"  - ", pubs[k \div 2].authors>>)]

\* the generated block of the records, from marker to marker
BlockLines(pubs) ==
    <<Line(START_MARK), Line(GENERATED_NOTE), Line(<<>>), Line(<<>>), Line(HEADING)>>
    \o EntryLines(pubs) \o <<Line(END_MARK)>>

\* d with a line terminator added when it does not end with one
Terminated(d) ==
    IF d = <<>> THEN <<Line(<<>>)>> ELSE [d EXCEPT ![Len(d)].nl = TRUE]

\* get_scholar_link gives None for this front matter
LinkIsNone(meta) == meta.valid /\ get_scholar_link(meta) = [raised |-> FALSE, value |-> None]

\* the <tr> elements of the page that carry the row class, in document order
ClassRowPositions(page) == {j \in 1..Len(page) : page[j].class = "gsc_a_tr"}
NthClassRow(page, n) ==
    page[CHOOSE j \in ClassRowPositions(page) :
            Cardinality({i \in ClassRowPositions(page) : i < j}) = n - 1]
WellFormed(tr) == tr.has_title_td /\ tr.a # None /\ tr.div # None /\ tr.year # None

(***************************************************************************)
(* C1.  A subject whose scholar link is None (no graduation-cap entry, or  *)
(* the placeholder link) keeps its _index.md exactly as it was before the  *)
(* run, whatever the document held, a generated block included.            *)
(***************************************************************************)
C1_SkippedSubjectUntouched ==
    \A a \in Authors : LinkIsNone(social[a]) => files[a] = files0[a]

(***************************************************************************)
(* C2.  Cleaning and then appending to a document that holds one generated *)
(* block, wherever the block sits, leaves exactly one start-marker line    *)
(* and one end-marker line, with the new records between them.             *)
(***************************************************************************)
C2_OneBlockAfterUpdate ==
    \A i \in 1..(Len(hlog) - 1) :
        (/\ hlog[i].op = "clean"
         /\ hlog[i + 1].op = "append"
         /\ OneBlock(hlog[i].before))
        => LET d == hlog[i + 1].after
           IN /\ Cardinality(LinesOf(d, START_MARK)) = 1
              /\ Cardinality(LinesOf(d, END_MARK)) = 1
              /\ \E b \in 1..Len(d) :
                    SubSeq(d, b, Len(d)) = BlockLines(hlog[i + 1].pubs) \o <<Line(<<>>)>>

(***************************************************************************)
(* C3.  Round trip: appending the block of any records to a document that  *)
(* holds no generated block, then cleaning, gives the document back.       *)
(***************************************************************************)
C3_AppendThenCleanRoundTrip ==
    \A i \in 1..(Len(hlog) - 1) :
        (/\ hlog[i].op = "append"
         /\ hlog[i + 1].op = "clean"
         /\ NoBlock(hlog[i].before))
        => hlog[i + 1].after = hlog[i].before

(***************************************************************************)
(* C4.  clean_index_of_old_pubs is idempotent: a second call in a row      *)
(* leaves the content the first call left, for every document.             *)
(***************************************************************************)
C4_CleanIdempotent ==
    \A i \in 1..(Len(hlog) - 1) :
        (hlog[i].op = "clean" /\ hlog[i + 1].op = "clean")
        => hlog[i + 1].after = hlog[i].after

(***************************************************************************)
(* C5.  The document written by the append to a document D that holds no   *)
(* generated block is D, a line terminator if D lacks its last one, the    *)
(* start marker, the generated-content note, two empty lines, the heading, *)
(* the two lines of each record in input order, the end marker and one     *)
(* empty line.                                                             *)
(***************************************************************************)
C5_AppendedDocument ==
    \A i \in 1..Len(hlog) :
        (hlog[i].op = "append" /\ NoBlock(hlog[i].before))
        => hlog[i].after =
              Terminated(hlog[i].before) \o BlockLines(hlog[i].pubs) \o <<Line(<<>>)>>

C5_Witness ==
    \E i \in 1..Len(hlog) :
        /\ hlog[i].op = "append"
        /\ NoBlock(hlog[i].before)
        /\ hlog[i].before # <<>>
        /\ ~hlog[i].before[Len(hlog[i].before)].nl
        /\ hlog[i].pubs = <<PubA, PubB>>

(***************************************************************************)
(* C6.  When the line "<!-- PUBLICATIONS START -->\n" or the line          *)
(* "<!-- PUBLICATIONS END -->\n" is not in the document, the clean leaves  *)
(* the content as it is, does not open the file for writing and lets no    *)
(* exception out.                                                          *)
(***************************************************************************)
C6_MissingMarkerIsNoOp ==
    \A i \in 1..Len(hlog) :
        (/\ hlog[i].op = "clean"
         /\ \/ ~ \E k \in 1..Len(hlog[i].before) : hlog[i].before[k] = Line(START_MARK)
            \/ ~ \E k \in 1..Len(hlog[i].before) : hlog[i].before[k] = Line(END_MARK))
        => /\ hlog[i].after = hlog[i].before
           /\ ~hlog[i].wrote
           /\ ~hlog[i].raised

C6_Witness ==
    \E i \in 1..Len(hlog) :
        /\ hlog[i].op = "clean"
        /\ LinesOf(hlog[i].before, START_MARK) # {}
        /\ LinesOf(hlog[i].before, END_MARK) = {}
        /\ Len(hlog[i].before) > 1
        /\ hlog[i].after = hlog[i].before

(***************************************************************************)
(* C7.  On a page whose N rows of class gsc_a_tr are all well formed,      *)
(* get_publications returns the records of the first min(k, N) of them for *)
(* a limit k, and of all N without a limit, one record per row, in the     *)
(* order of the page.                                                      *)
(***************************************************************************)
C7_FirstRowsInOrder ==
    (/\ pin.fn = "get_publications"
     /\ pout.done
     /\ pin.response.ok
     /\ \A j \in ClassRowPositions(pin.response.page) : WellFormed(pin.response.page[j]))
    => LET page == pin.response.page
           N == Cardinality(ClassRowPositions(page))
           k == IF pin.limit = <<>> THEN N ELSE Min(pin.limit[1], N)
       IN /\ ~pout.raised
          /\ Len(pout.pubs) = k
          /\ \A n \in 1..k :
                pout.pubs[n] = [title |-> NthClassRow(page, n).a,
                                authors |-> NthClassRow(page, n).div,
                                year |-> NthClassRow(page, n).year]

C7_Witness ==
    /\ pin.fn = "get_publications"
    /\ pout.done
    /\ pin.limit = <<1>>
    /\ pin.response.page = <<[RowA EXCEPT !.class = ""], RowB, RowA>>
    /\ pout.pubs = <<PubB>>

(***************************************************************************)
(* C8.  get_scholar_link returns None when no entry of the social list has *)
(* the icon graduation-cap or when the link of the last such entry is the  *)
(* placeholder link, and the link of the last such entry otherwise.        *)
(***************************************************************************)
C8_LastGraduationCapLink ==
    (pin.fn = "get_scholar_link" /\ pout.done /\ pin.meta.valid)
    => LET entries == pin.meta.social
           caps == {i \in 1..Len(entries) : entries[i].icon = "graduation-cap"}
           last == CHOOSE i \in caps : \A j \in caps : j <= i
       IN /\ ~pout.raised
          /\ pout.link = IF caps = {} THEN None
                         ELSE IF entries[last].link = default_link THEN None
                         ELSE entries[last].link

C8_Witness ==
    /\ pin.fn = "get_scholar_link"
    /\ pout.done
    /\ pin.meta.social = <<Entry("graduation-cap", default_link),
                           Entry("graduation-cap", LinkB)>>
    /\ pout.link = LinkB

(***************************************************************************)
(* C9.  An exception raised while a subject is processed ends the run at   *)
(* that subject: the documents of the subjects after it keep their content *)
(* from before the run, the documents of the subjects before it keep the   *)
(* content they had when their iteration ended.                            *)
(***************************************************************************)
C9_FailureHaltsRun ==
    \A a \in failed :
        /\ pc = "raised"
        /\ idx = a
        /\ Len(settled) = a - 1
        /\ \A b \in Authors : b > a => files[b] = files0[b]
        /\ \A b \in Authors : b < a => files[b] = settled[b]

C9_Witness ==
    /\ failed = {2}
    /\ pc = "raised"
    /\ scholar_link # None
    /\ files[1] # files0[1]
    /\ OneBlock(files[1])
    /\ OneBlock(files[3])

(***************************************************************************)
(* C10.  No write to a subject's _index.md, neither the removal of the old *)
(* block nor the append, happens before the fetch and the extraction for   *)
(* that subject are done, so a subject whose processing fails keeps its    *)
(* document as it was before the run.                                      *)
(***************************************************************************)
C10_NoWriteBeforeFetch ==
    /\ (idx \in Authors /\ pc \in {"get_scholar_link", "clean", "check"})
          => files[idx] = files0[idx]
    /\ \A a \in failed : files[a] = files0[a]

====
